---- MODULE Spec2Model ----
(***************************************************************************)
(* Twitter sentiment analysis pipeline (src/main.py).                      *)
(*                                                                         *)
(* The state is one Python process that has loaded the module: the         *)
(* position of main() (pc), its local variables, the output file on disk,  *)
(* the object store, and the value returned by the last direct call of a   *)
(* module function.  The external collaborators (tweepy, TextBlob, the     *)
(* filesystem, boto3) are the environment: each call of one of them draws  *)
(* its outcome from the outcomes the library can produce.                  *)
(*                                                                         *)
(* Polarity is a float in [-1, 1]; it is modelled in binary fixed point,   *)
(* as an integer number of 1/Scale units, and polarity_score (the value    *)
(* rounded to 3 decimals) as an integer number of thousandths.             *)
(***************************************************************************)
EXTENDS Integers, Sequences, FiniteSets, TLC

\* ------------------------------------------------------------- bounds
\* most tweets the provider returns for one query (max_results = TWEET_COUNT)
MaxTweets == 2
\* fixed-point units per 1.0 of polarity (finer than thousandths)
Scale == 2048

\* ------------------------------------------------------------- constants
\* round(polarity, 3): thousandths
Thousand == 1000
\* avg_polarity > 0.1 / < -0.1, in thousandths
OverallThreshold == 100

None == "None"
Placeholder == "YOUR_BUCKET_NAME"
\* AWS_BUCKET_NAME as shipped, and as edited by an operator
BucketNames == {Placeholder, "my-bucket"}
csv_filename == "tweet_sentiments.csv"

\* ------------------------------------------------------------- data
Ids == {1, 2}
Texts == {<<"a", "b">>, <<"a", "\n", "\r", "b">>}
Timestamps == {"2024-01-01T00:00:00Z"}
\* tweet.public_metrics: None (the provider sent no metrics, and no count can
\* be read from it) or the dictionary of counters
NoMetrics == [present |-> FALSE, retweet_count |-> -1, like_count |-> -1]
Metrics == {NoMetrics, [present |-> TRUE, retweet_count |-> 3, like_count |-> 5]}
\* polarities of fetched tweets: the smallest negative one, zero, and the
\* largest
TweetPolarities == {-1, 0, Scale}

Polarities == (0 - Scale)..Scale

\* A post as tweepy returns it; pol is the polarity TextBlob assigns to its
\* cleaned text.
TweetSet ==
    [id : Ids, text : Texts, created_at : Timestamps,
     public_metrics : Metrics, pol : TweetPolarities]

SeqsUpTo(S, n) == UNION {[1..k -> S] : k \in 0..n}

TweetSeqs == SeqsUpTo(TweetSet, MaxTweets)

\* one post of every polarity of the range, for the direct calls
WideTweets ==
    [id : {1}, text : {<<"a", "\n", "\r", "b">>}, created_at : Timestamps,
     public_metrics : {NoMetrics}, pol : Polarities]

\* ------------------------------------------------------------- functions

\* tweet.text.replace('\n', ' ').replace('\r', ' ')
clean_text(text) ==
    [i \in 1..Len(text) |->
        IF text[i] = "\n" \/ text[i] = "\r" THEN " " ELSE text[i]]

\* Python round(x, 3) of the float p / Scale: the nearest thousandth, an
\* exact tie going to the even one.  The result is in thousandths.
Round3(p) ==
    LET n == Thousand * p
        t == n \div Scale
        r == n - t * Scale
    IN  IF 2 * r < Scale THEN t
        ELSE IF 2 * r > Scale THEN t + 1
        ELSE IF t % 2 = 0 THEN t ELSE t + 1

\* analyze_sentiment with the boundary on the wrong side
analyze_sentiment_GE(polarity) ==
    LET sentiment == IF polarity >= 0 THEN "positive"
                     ELSE IF polarity < 0 THEN "negative"
                     ELSE "neutral"
    IN  <<sentiment, polarity>>

\* analyze_sentiment with the summary's 0.1 dead band applied to the label
analyze_sentiment_Band(polarity) ==
    LET sentiment == IF 10 * polarity > Scale THEN "positive"
                     ELSE IF 10 * polarity < 0 - Scale THEN "negative"
                     ELSE "neutral"
    IN  <<sentiment, polarity>>

\* analyze_sentiment, given the polarity TextBlob returns for the text
analyze_sentiment(polarity) ==
    LET sentiment == IF polarity > 0 THEN "positive"
                     ELSE IF polarity < 0 THEN "negative"
                     ELSE "neutral"
    IN  <<sentiment, polarity>>

\* the tweet_data dictionary of one tweet
tweet_data(tweet) ==
    LET clean == clean_text(tweet.text)
        sp == analyze_sentiment(tweet.pol)
    IN  [tweet_id |-> tweet.id,
         text |-> clean,
         created_at |-> tweet.created_at,
         sentiment |-> sp[1],
         polarity_score |-> Round3(sp[2]),
         retweet_count |-> IF tweet.public_metrics.present
                           THEN tweet.public_metrics.retweet_count ELSE 0,
         like_count |-> IF tweet.public_metrics.present
                        THEN tweet.public_metrics.like_count ELSE 0]

HasMetrics(tweet) == tweet.public_metrics.present

\* process_tweets dropping the posts that carry no metrics
process_tweets_Filter(tweets) ==
    LET kept == SelectSeq(tweets, HasMetrics)
    IN  [i \in 1..Len(kept) |-> tweet_data(kept[i])]

process_tweets(tweets) ==
    [i \in 1..Len(tweets) |-> tweet_data(tweets[i])]

\* ------------------------------------------------------------- CSV export
headers ==
    <<"tweet_id", "text", "created_at", "sentiment",
      "polarity_score", "retweet_count", "like_count">>

\* csv.DictWriter.writerow: the record's values in the order of fieldnames
CsvRow(result) == [i \in 1..Len(headers) |-> result[headers[i]]]

\* writeheader() followed by writerows(results)
CsvRows(results) ==
    <<headers>> \o [i \in 1..Len(results) |-> CsvRow(results[i])]

\* What the filesystem can do with open(filename, 'w') and the writes that
\* follow: refuse the open, fail after `written` rows reached the disk, or
\* complete.
FsOutcomes(results) ==
    {[kind |-> "open_error", written |-> 0]}
        \cup {[kind |-> "write_error", written |-> k] :
                  k \in 0..Len(CsvRows(results))}
        \cup {[kind |-> "ok", written |-> Len(CsvRows(results))]}

\* a file on disk: whether it exists, and its rows
NoFile == [exists |-> FALSE, rows |-> <<>>]
FileOf(rows) == [exists |-> TRUE, rows |-> rows]

\* save_to_csv: mode 'w' truncates the file at open; every exception is
\* caught and turned into False.  disk is the file before the call.
\* save_to_csv opening the file in mode 'a'
save_to_csv_Append(results, disk, fs) ==
    IF fs.kind = "open_error"
    THEN [ret |-> FALSE, opened |-> FALSE, raised |-> FALSE, disk |-> disk]
    ELSE IF fs.kind = "write_error"
    THEN [ret |-> FALSE, opened |-> TRUE, raised |-> FALSE,
          disk |-> FileOf(disk.rows \o SubSeq(CsvRows(results), 1, fs.written))]
    ELSE [ret |-> TRUE, opened |-> TRUE, raised |-> FALSE,
          disk |-> FileOf(disk.rows \o CsvRows(results))]

save_to_csv(results, disk, fs) ==
    IF fs.kind = "open_error"
    THEN [ret |-> FALSE, opened |-> FALSE, raised |-> FALSE, disk |-> disk]
    ELSE IF fs.kind = "write_error"
    THEN [ret |-> FALSE, opened |-> TRUE, raised |-> FALSE,
          disk |-> FileOf(SubSeq(CsvRows(results), 1, fs.written))]
    ELSE [ret |-> TRUE, opened |-> TRUE, raised |-> FALSE,
          disk |-> FileOf(CsvRows(results))]

RECURSIVE LineBreaks(_)
\* number of raw line-break characters in a text
LineBreaks(text) ==
    IF text = <<>> THEN 0
    ELSE (IF Head(text) = "\n" \/ Head(text) = "\r" THEN 1 ELSE 0)
             + LineBreaks(Tail(text))

RECURSIVE DataLines(_, _)
\* number of text lines of rows[i..]: a data row spans one line more for
\* every raw line break inside its text field
DataLines(rows, i) ==
    IF i > Len(rows) THEN 0
    ELSE 1 + LineBreaks(rows[i][2]) + DataLines(rows, i + 1)

\* number of text lines of an exported file (its first row is the header)
PhysicalLines(rows) ==
    IF Len(rows) = 0 THEN 0 ELSE 1 + DataLines(rows, 2)

\* ------------------------------------------------------------- external calls
\* tweepy.Client(bearer_token=...): returns a client or raises
AuthOutcomes == {"client", "error"}

authenticate_twitter(tw) ==
    IF tw = "error"
    THEN [ret |-> None, raised |-> FALSE]
    ELSE [ret |-> "client", raised |-> FALSE]

\* client.search_recent_tweets(...): raises, or returns a response whose
\* data is None (no match) or a non-empty list of at most max_results posts
SearchOutcomes ==
    {[kind |-> "error", data |-> <<>>], [kind |-> "response", data |-> <<>>]}
        \cup {[kind |-> "response", data |-> ts] : ts \in TweetSeqs \ {<<>>}}

\* fetch_tweets without its try/except
fetch_tweets_NoTry(search) ==
    IF search.kind = "error"
    THEN [ret |-> <<>>, raised |-> TRUE]
    ELSE IF search.data # <<>>
    THEN [ret |-> search.data, raised |-> FALSE]
    ELSE [ret |-> <<>>, raised |-> FALSE]

fetch_tweets(search) ==
    IF search.kind = "error"
    THEN [ret |-> <<>>, raised |-> FALSE]
    ELSE IF search.data # <<>>
    THEN [ret |-> search.data, raised |-> FALSE]
    ELSE [ret |-> <<>>, raised |-> FALSE]

\* s3.upload_file(...): completes or raises
S3Outcomes == {"ok", "error"}

\* upload_to_s3 without its try/except
upload_to_s3_NoTry(disk, store, s3o) ==
    IF s3o = "error"
    THEN [ret |-> FALSE, raised |-> TRUE, store |-> store]
    ELSE [ret |-> TRUE, raised |-> FALSE,
          store |-> store \cup {[name |-> csv_filename, body |-> disk]}]

\* upload_to_s3: the object's body is the file's content; every exception is
\* caught and turned into False.  store is the bucket's content before.
upload_to_s3(disk, store, s3o) ==
    IF s3o = "error"
    THEN [ret |-> FALSE, raised |-> FALSE, store |-> store]
    ELSE [ret |-> TRUE, raised |-> FALSE,
          store |-> store \cup {[name |-> csv_filename, body |-> disk]}]

\* ------------------------------------------------------------- summary
RECURSIVE SumPolarity(_)
\* total_polarity += result['polarity_score']
SumPolarity(results) ==
    IF results = <<>> THEN 0
    ELSE Head(results).polarity_score + SumPolarity(Tail(results))

\* sentiment_counts[result['sentiment']] += 1
CountOf(results, s) ==
    Cardinality({i \in 1..Len(results) : results[i].sentiment = s})

NoReport == [kind |-> "none"]
ZeroDivisionError == [kind |-> "ZeroDivisionError"]

\* the part of generate_summary after its guard: what it prints.  Averages
\* stay exact: avg > 0.1 is total > 0.1 * n, and the bar of a label is
\* int(percentage / 5).
summary_report(results) ==
    LET total_tweets == Len(results)
        total_polarity == SumPolarity(results)
    IN  IF total_tweets = 0 THEN ZeroDivisionError
        ELSE [kind |-> "report",
              total_tweets |-> total_tweets,
              counts |-> [s \in {"positive", "negative", "neutral"} |->
                              CountOf(results, s)],
              bars |-> [s \in {"positive", "negative", "neutral"} |->
                            (CountOf(results, s) * 20) \div total_tweets],
              total_polarity |-> total_polarity,
              overall |->
                  IF total_polarity > OverallThreshold * total_tweets
                  THEN "POSITIVE"
                  ELSE IF total_polarity < (0 - OverallThreshold) * total_tweets
                  THEN "NEGATIVE"
                  ELSE "NEUTRAL"]

\* generate_summary without its empty-input guard
generate_summary_NoGuard(results) == summary_report(results)

\* generate_summary: "if not results: return" before anything is computed
generate_summary(results) ==
    IF results = <<>> THEN NoReport ELSE summary_report(results)

\* ------------------------------------------------------------- main()
\* main() going on without a client
AfterAuthenticate_NoCheck(c) == "fetch"
\* if not client: return
AfterAuthenticate(c) == IF c = None THEN "done" ELSE "fetch"
\* if not tweets: return
AfterFetch(ts) == IF ts = <<>> THEN "done" ELSE "process"
\* main() ignoring what save_to_csv returned
AfterSave_Ignore(ok) == "summary"
\* if not save_to_csv(results, csv_filename): return
AfterSave(ok) == IF ok THEN "summary" ELSE "done"
\* if AWS_BUCKET_NAME != "YOUR_BUCKET_NAME"
ShouldUpload(b) == b # Placeholder
\* what a step leaves main() at: an exception no handler caught ends it
Goto(raised, next) == IF raised THEN "crashed" ELSE next
\* the exit status of the interpreter: 0 unless an exception escaped main()
ExitStatus(p) == IF p = "crashed" THEN 1 ELSE 0

\* the export of an earlier run, left at the output path
EarlierFile ==
    CsvRows(process_tweets(
        <<[id |-> 2, text |-> <<"b">>, created_at |-> "2023-12-31T00:00:00Z",
           public_metrics |-> NoMetrics, pol |-> Scale]>>))
PriorFiles == {NoFile, FileOf(EarlierFile)}

VARIABLES
    pc,        \* where main() is: idle, authenticate, ..., done, crashed
    bucket,    \* AWS_BUCKET_NAME
    client,    \* main's client
    tweets,    \* main's tweets
    results,   \* main's results
    saved,     \* what save_to_csv returned to main (FALSE before the call)
    opened,    \* the output path was opened for writing in this process
    summary,   \* what generate_summary printed in this run
    upload,    \* "none", "skipped", "ok", "failed"
    completed, \* the final "complete" message was printed
    exit_code, \* the process's exit status (Running: none yet)
    stages,    \* history: the stages run so far, in order
    file,      \* the content of the output path 
    file0,     \* history: the content of the output path at start
    s3,        \* the objects of the bucket
    ret        \* the last direct call of a function and its result

vars ==
    <<pc, bucket, client, tweets, results, saved, opened, summary, upload,
      completed, exit_code, stages, file, file0, s3, ret>>

NoCall == [fn |-> "none"]
NotCalled == [kind |-> "not_called"]
Running == -1

Init ==
    /\ pc = "idle"
    /\ bucket \in BucketNames
    /\ client = None
    /\ tweets = <<>>
    /\ results = <<>>
    /\ saved = FALSE
    /\ opened = FALSE
    /\ summary = NotCalled
    /\ upload = "none"
    /\ completed = FALSE
    /\ exit_code = Running
    /\ stages = <<>>
    /\ file \in PriorFiles
    /\ file0 = file
    /\ s3 = {}
    /\ ret = NoCall

\* main() is entered (python main.py, or main() called)
Start ==
    /\ pc = "idle"
    /\ pc' = "authenticate"
    /\ ret' = NoCall
    /\ UNCHANGED <<bucket, client, tweets, results, saved, opened, summary,
                   upload, completed, exit_code, stages, file, file0, s3>>

\* leaving main(): the interpreter exits
Leave(p) == IF p \in {"done", "crashed"} THEN ExitStatus(p) ELSE Running

\* Step 1: client = authenticate_twitter()
Authenticate ==
    /\ pc = "authenticate"
    /\ \E tw \in AuthOutcomes :
         LET r == authenticate_twitter(tw)
             next == Goto(r.raised, AfterAuthenticate(r.ret))
         IN  /\ client' = r.ret
             /\ pc' = next
             /\ exit_code' = Leave(next)
    /\ stages' = Append(stages, "Authenticate")
    /\ UNCHANGED <<bucket, tweets, results, saved, opened, summary, upload,
                   completed, file, file0, s3, ret>>

\* Step 2: tweets = fetch_tweets(client, SEARCH_KEYWORD, TWEET_COUNT)
Fetch ==
    /\ pc = "fetch"
    /\ \E search \in SearchOutcomes :
         LET r == fetch_tweets(search)
             next == Goto(r.raised, AfterFetch(r.ret))
         IN  /\ tweets' = r.ret
             /\ pc' = next
             /\ exit_code' = Leave(next)
    /\ stages' = Append(stages, "Fetch")
    /\ UNCHANGED <<bucket, client, results, saved, opened, summary, upload,
                   completed, file, file0, s3, ret>>

\* Step 3: results = process_tweets(tweets)
Process ==
    /\ pc = "process"
    /\ results' = process_tweets(tweets)
    /\ pc' = "save"
    /\ stages' = Append(stages, "Score")
    /\ UNCHANGED <<bucket, client, tweets, saved, opened, summary, upload,
                   completed, exit_code, file, file0, s3, ret>>

\* Step 4: if not save_to_csv(results, csv_filename): return
Save ==
    /\ pc = "save"
    /\ \E fs \in FsOutcomes(results) :
         LET r == save_to_csv(results, file, fs)
             next == Goto(r.raised, AfterSave(r.ret))
         IN  /\ saved' = r.ret
             /\ opened' = (opened \/ r.opened)
             /\ file' = r.disk
             /\ pc' = next
             /\ exit_code' = Leave(next)
    /\ stages' = Append(stages, "Export")
    /\ UNCHANGED <<bucket, client, tweets, results, summary, upload,
                   completed, file0, s3, ret>>

\* Step 5: generate_summary(results)
Summarize ==
    /\ pc = "summary"
    /\ LET r == generate_summary(results)
           next == Goto(r = ZeroDivisionError, "upload")
       IN  /\ summary' = r
           /\ pc' = next
           /\ exit_code' = Leave(next)
    /\ stages' = Append(stages, "Summarize")
    /\ UNCHANGED <<bucket, client, tweets, results, saved, opened, upload,
                   completed, file, file0, s3, ret>>

\* Step 6: upload_to_s3(csv_filename, AWS_BUCKET_NAME) when a bucket is
\* configured, then the closing messages
Upload ==
    /\ pc = "upload"
    /\ ShouldUpload(bucket)
    /\ \E s3o \in S3Outcomes :
         LET r == upload_to_s3(file, s3, s3o)
             next == Goto(r.raised, "done")
         IN  /\ s3' = r.store
             /\ upload' = IF r.ret THEN "ok" ELSE "failed"
             /\ completed' = (next = "done")
             /\ pc' = next
             /\ exit_code' = Leave(next)
    /\ stages' = Append(stages, "Publish")
    /\ UNCHANGED <<bucket, client, tweets, results, saved, opened, summary,
                   file, file0, ret>>

SkipUpload ==
    /\ pc = "upload"
    /\ ~ShouldUpload(bucket)
    /\ upload' = "skipped"
    /\ completed' = TRUE
    /\ pc' = "done"
    /\ exit_code' = Leave("done")
    /\ UNCHANGED <<bucket, client, tweets, results, saved, opened, summary,
                   stages, file, file0, s3, ret>>

\* ------------------------------------------------------------- direct calls
\* A function of the module called on its own, before main() runs.  The
\* three functions are pure, so a call leaves nothing behind but its result:
\* ret keeps the latest one, and one call per behaviour covers them all.
CallAnalyze ==
    /\ pc = "idle"
    /\ ret = NoCall
    /\ \E p \in Polarities :
         ret' = [fn |-> "analyze_sentiment", arg |-> p,
                 val |-> analyze_sentiment(p)]
    /\ UNCHANGED <<pc, bucket, client, tweets, results, saved, opened,
                   summary, upload, completed, exit_code, stages, file,
                   file0, s3>>

CallProcess ==
    /\ pc = "idle"
    /\ ret = NoCall
    /\ \E ts \in TweetSeqs \cup {<<t>> : t \in WideTweets} :
         ret' = [fn |-> "process_tweets", arg |-> ts,
                 val |-> process_tweets(ts)]
    /\ UNCHANGED <<pc, bucket, client, tweets, results, saved, opened,
                   summary, upload, completed, exit_code, stages, file,
                   file0, s3>>

CallSummary ==
    /\ pc = "idle"
    /\ ret = NoCall
    /\ \E ts \in TweetSeqs :
         ret' = [fn |-> "generate_summary", arg |-> process_tweets(ts),
                 val |-> generate_summary(process_tweets(ts))]
    /\ UNCHANGED <<pc, bucket, client, tweets, results, saved, opened,
                   summary, upload, completed, exit_code, stages, file,
                   file0, s3>>

Next ==
    \/ Start
    \/ Authenticate
    \/ Fetch
    \/ Process
    \/ Save
    \/ Summarize
    \/ Upload
    \/ SkipUpload
    \/ CallAnalyze
    \/ CallProcess
    \/ CallSummary

Spec == Init /\ [][Next]_vars

\* ------------------------------------------------------------- properties
Has(stage) == \E i \in 1..Len(stages) : stages[i] = stage

StageOrder ==
    <<"Authenticate", "Fetch", "Score", "Export", "Summarize", "Publish">>

Labels == {"positive", "negative", "neutral"}

\* the records the program has assembled: main's results, and the result of
\* a direct call of process_tweets, each with the post it was made from
Assembled ==
    {<<tweets[i], results[i]>> : i \in 1..Len(results)}
        \cup (IF ret.fn = "process_tweets"
              THEN {<<ret.arg[i], ret.val[i]>> :
                        i \in 1..(IF Len(ret.val) < Len(ret.arg)
                                  THEN Len(ret.val) ELSE Len(ret.arg))}
              ELSE {})

Abs(x) == IF x < 0 THEN 0 - x ELSE x

\* C1: the stages of main() run in the order Authenticate, Fetch, Score,
\* Export, Summarize, Publish, each at most once; a stage runs only after
\* every earlier mandatory stage succeeded; a failed authentication, an empty
\* or failed fetch and a failed export end the run at once; an unconfigured
\* bucket skips Publish and the run still completes.
C1_ForwardStages ==
    /\ Len(stages) <= Len(StageOrder)
    /\ \A i \in 1..Len(stages) : stages[i] = StageOrder[i]
    /\ Has("Fetch") => client # None
    /\ Has("Score") => tweets # <<>>
    /\ Has("Summarize") => saved
    /\ Has("Publish") => saved /\ bucket # Placeholder
    /\ (Has("Authenticate") /\ client = None) => pc = "done"
    /\ (Has("Fetch") /\ tweets = <<>>) => pc = "done"
    /\ (Has("Export") /\ ~saved) => pc = "done"
    /\ (pc = "done" /\ saved /\ bucket = Placeholder)
           => /\ stages = SubSeq(StageOrder, 1, 5)
              /\ upload = "skipped"
              /\ completed

C1_Witness ==
    /\ pc = "done"
    /\ stages = StageOrder
    /\ completed

\* C2: when authentication fails, the fetch fails or the provider returns no
\* post, main() returns normally, the output path was never opened for
\* writing and the file holds what it held before.
C2_NoCsvOnEarlyHalt ==
    ((Has("Authenticate") /\ client = None) \/ (Has("Fetch") /\ tweets = <<>>))
        => /\ pc = "done"
           /\ ~opened
           /\ ~Has("Export")
           /\ file = file0

C2_Witness ==
    /\ pc = "done"
    /\ Has("Fetch")
    /\ tweets = <<>>
    /\ file0.exists
    /\ file = file0

\* C3 as stated: every finished run that assembled records has produced the
\* summary, whether or not the export succeeded.
C3_SummaryWhateverExport ==
    (pc = "done" /\ results # <<>>) => summary.kind = "report"

\* C3 amended: a finished run that assembled records has produced the summary
\* of these records exactly when the export succeeded, whatever the publish
\* stage did (skipped, succeeded or failed).
C3_SummaryIffExported ==
    (pc = "done" /\ results # <<>>)
        => /\ saved => summary = generate_summary(results)
           /\ saved => summary.kind = "report"
           /\ saved => upload \in {"skipped", "ok", "failed"}
           /\ ~saved => summary = NotCalled

C3_Witness ==
    /\ pc = "done"
    /\ saved
    /\ upload = "failed"
    /\ summary.kind = "report"

\* C4: once the export succeeded, the publish stage cannot abort the run or
\* touch the file: skipped, succeeded or failed, the run ends with its final
\* message and the file still holds the export; and an upload is attempted
\* only with a bucket other than the placeholder.
C4_PublishNeverAborts ==
    /\ saved => /\ pc \in {"summary", "upload", "done"}
                /\ file = FileOf(CsvRows(results))
                /\ pc = "done" => completed /\ upload \in {"skipped", "ok", "failed"}
    /\ upload \in {"ok", "failed"} => bucket # Placeholder
    /\ upload = "skipped" => bucket = Placeholder
    /\ upload = "ok" => [name |-> csv_filename, body |-> file] \in s3

C4_Witness ==
    /\ pc = "done"
    /\ saved
    /\ upload = "failed"
    /\ completed
    /\ file = FileOf(CsvRows(results))

\* C5: a run that ends on a fatal stage failure ends with a non-zero exit
\* status, unlike a run that completes.
C5_NonZeroExitOnHalt ==
    (pc = "done" /\ ~completed) => exit_code # 0

\* C6: analyze_sentiment labels every polarity by its sign: positive iff
\* p > 0, negative iff p < 0, neutral iff p = 0, and returns the polarity
\* unchanged.
C6_LabelBySign ==
    /\ ret.fn = "analyze_sentiment"
           => /\ ret.val[1] \in Labels
              /\ ret.val[1] = "positive" <=> ret.arg > 0
              /\ ret.val[1] = "negative" <=> ret.arg < 0
              /\ ret.val[1] = "neutral" <=> ret.arg = 0
              /\ ret.val[2] = ret.arg
    /\ \A a \in Assembled :
           /\ a[2].sentiment \in Labels
           /\ a[2].sentiment = "positive" <=> a[1].pol > 0
           /\ a[2].sentiment = "negative" <=> a[1].pol < 0
           /\ a[2].sentiment = "neutral" <=> a[1].pol = 0

C6_Witness ==
    /\ ret.fn = "analyze_sentiment"
    /\ ret.arg = 0
    /\ ret.val[1] = "neutral"

\* C7: process_tweets returns one record per post, the i-th carrying the id
\* of the i-th post, and a post without metrics gets both counters 0.
C7_ProcessPreserves ==
    /\ ret.fn = "process_tweets"
           => /\ Len(ret.val) = Len(ret.arg)
              /\ \A i \in 1..Len(ret.arg) :
                     /\ ret.val[i].tweet_id = ret.arg[i].id
                     /\ ~ret.arg[i].public_metrics.present
                            => /\ ret.val[i].retweet_count = 0
                               /\ ret.val[i].like_count = 0
    /\ Has("Score")
           => /\ Len(results) = Len(tweets)
              /\ \A i \in 1..Len(tweets) :
                     /\ results[i].tweet_id = tweets[i].id
                     /\ ~tweets[i].public_metrics.present
                            => /\ results[i].retweet_count = 0
                               /\ results[i].like_count = 0

C7_Witness ==
    /\ ret.fn = "process_tweets"
    /\ Len(ret.arg) = 2
    /\ ret.arg[1].id = 2
    /\ ret.arg[2].id = 1
    /\ ~ret.arg[1].public_metrics.present
    /\ ret.arg[2].public_metrics.present
    /\ ret.val[1].like_count = 0
    /\ ret.val[2].like_count = 5

\* C8: after a successful export the file holds the 7-column header and then
\* one row per record of this run, in order, on N + 1 lines, whatever the
\* path held before.
C8_ExportExact ==
    saved
        => /\ file.exists
           /\ Len(file.rows) = Len(tweets) + 1
           /\ file.rows[1] = <<"tweet_id", "text", "created_at", "sentiment",
                               "polarity_score", "retweet_count", "like_count">>
           /\ \A i \in 1..Len(tweets) :
                  /\ Len(file.rows[i + 1]) = 7
                  /\ file.rows[i + 1][1] = tweets[i].id
                  /\ file.rows[i + 1][2] = results[i].text
                  /\ file.rows[i + 1][3] = tweets[i].created_at
                  /\ file.rows[i + 1][4] = results[i].sentiment
                  /\ file.rows[i + 1][5] = results[i].polarity_score
                  /\ file.rows[i + 1][6] = results[i].retweet_count
                  /\ file.rows[i + 1][7] = results[i].like_count
           /\ PhysicalLines(file.rows) = Len(tweets) + 1

C8_Witness ==
    /\ saved
    /\ file0.exists
    /\ Len(tweets) = 2
    /\ tweets[1].id = 2
    /\ tweets[2].id = 1
    /\ LineBreaks(tweets[1].text) > 0
    /\ Len(file.rows) = 3

\* C9: no division by zero in the summary: main() reaches the summary only
\* with records, and generate_summary called with no record reports nothing
\* instead of dividing.
C9_NoDivisionByZero ==
    /\ pc = "summary" => Len(results) > 0
    /\ Has("Summarize") => Len(results) > 0 /\ summary.kind = "report"
    /\ pc # "crashed"
    /\ ret.fn = "generate_summary"
           => /\ ret.val.kind # "ZeroDivisionError"
              /\ ret.arg = <<>> => ret.val = NoReport
              /\ ret.arg # <<>>
                     => /\ ret.val.kind = "report"
                        /\ ret.val.total_tweets = Len(ret.arg)

C9_Witness ==
    /\ ret.fn = "generate_summary"
    /\ ret.arg = <<>>
    /\ ret.val = NoReport

\* C10 as stated: in every assembled record the label agrees with the sign
\* of the stored polarity_score, in both directions.
C10_LabelIffScoreSign ==
    \A a \in Assembled :
        /\ a[2].sentiment = "positive" <=> a[2].polarity_score > 0
        /\ a[2].sentiment = "negative" <=> a[2].polarity_score < 0
        /\ a[2].sentiment = "neutral" <=> a[2].polarity_score = 0

\* C10 amended: polarity_score is the polarity rounded to the nearest
\* thousandth and the label never contradicts its sign: a positive score has
\* the label positive, a negative one negative, and a neutral record has the
\* score 0; the score is 0 under a positive or negative label only for a
\* non-zero polarity of magnitude at most 0.0005.
C10_ScoreSignImpliesLabel ==
    \A a \in Assembled :
        /\ 2 * Abs(Thousand * a[1].pol - Scale * a[2].polarity_score) <= Scale
        /\ a[2].polarity_score > 0 => a[2].sentiment = "positive"
        /\ a[2].polarity_score < 0 => a[2].sentiment = "negative"
        /\ a[2].sentiment = "neutral" => a[2].polarity_score = 0
        /\ (a[2].sentiment # "neutral" /\ a[2].polarity_score = 0)
               => /\ a[1].pol # 0
                  /\ 2 * Thousand * Abs(a[1].pol) <= Scale

C10_Witness ==
    \E a \in Assembled :
        /\ a[1].pol > 0
        /\ a[2].sentiment = "positive"
        /\ a[2].polarity_score = 0

====
